---- MODULE Spec2Model ----
(***************************************************************************)
(* Model of the alert pipeline of the CPD telemetry microservice:          *)
(*   - module/database.py : get_latest_readings, detect_temperature_spikes *)
(*   - module/alertas.py  : generar_alertas                                *)
(*   - module/alertas_manager.py : AlertManager (throttled e-mail dispatch)*)
(*   - module/correo.py   : EnviarCorreoSSL                                *)
(*   - main.py            : loop_envio_alertas                             *)
(*                                                                         *)
(* Units.  Temperatures are tenths of a degree (24.0 C = 240), so the      *)
(* spike limits 4.0 / 2.5 / -5.0 are 40 / 25 / -50.  fecha_hora and the    *)
(* clock are whole minutes, so delta_min = total_seconds()/60 is the       *)
(* difference of two fecha_hora values.  Python's None is the empty        *)
(* sequence and a present value x is <<x>>.                                *)
(***************************************************************************)
EXTENDS Integers, Sequences, FiniteSets, TLC

VARIABLES
    now,              \* wall clock: datetime.now() / SQL NOW(), in minutes
    tabla,            \* rows of table telemetria_sensores
    config,           \* contents of config/parametros.json
    last_alert_sent,  \* AlertManager.last_alert_sent
    ultimas_alertas,  \* AlertManager.ultimas_alertas
    pc,               \* position of the task loop_envio_alertas
    despertar,        \* clock value at which asyncio.sleep(60) returns
    ahora,            \* local 'ahora' of the running tick
    alertas,          \* local 'alertas' of the running tick
    pendientes,       \* recipients the for-loop of the tick has still to visit
    ultimo_tick,      \* history: how the last started tick ended, whether it
                      \* called generar_alertas, whether it ran lines 92-93
    envios,           \* history: one entry per "Guardar estado" (lines 92-93)
    correos,          \* history: one entry per call of EnviarCorreoSSL
    llamada,          \* history: the last call of an alert function, or the
                      \* response a handler of main.py is returning
    ultimo_lote,      \* history: the batch of the last "Guardar estado"
    estado            \* the response GET /api/alertas-estado is returning

vars == <<now, tabla, config, last_alert_sent, ultimas_alertas, pc, despertar,
          ahora, alertas, pendientes, ultimo_tick, envios, correos, llamada,
          ultimo_lote, estado>>

-----------------------------------------------------------------------------
(* Bounds and input domains                                                *)

MaxNow == 6
MaxFilas == 3

None == <<>>
Some(x) == <<x>>

Ubicaciones == {1, 2}

\* Rows a table may hold.  Location 1: readings of minutes 0 and 1 (one
\* before, one inside the window of a query made at minute 21), and later
\* readings 10, 15 and 20 minutes after minute 1 whose temperatures are 5.0
\* below, 2.5 above and 4.0 above 20.0.  Location 2: a smaller choice.
Filas ==
    [ubicacion : {1}, temperatura : {Some(200), Some(240), None}, fecha_hora : {0, 1}]
    \cup [ubicacion : {1}, temperatura : {Some(150), Some(225), Some(240)},
          fecha_hora : {11, 16, 21}]
    \cup [ubicacion : {2}, temperatura : {Some(200), Some(240), None}, fecha_hora : {1, 11}]
Umbrales == {[warning |-> 200, danger |-> 240]}
Destinatarios == {<<"ops@cpd">>, <<"ops@cpd", "noc@cpd">>}
Intervalos == {2, 3}

Fila(u, t, f) == [ubicacion |-> u, temperatura |-> t, fecha_hora |-> f]

-----------------------------------------------------------------------------
(* Sequences helpers                                                       *)

Range(s) == {s[i] : i \in DOMAIN s}

\* Python list.sort(key=...): stable, ascending.  The list is sorted as
\* <<key, element>> pairs; insertion keeps an element behind every earlier
\* element whose key is not larger.
RECURSIVE InsertarEstable(_, _)
InsertarEstable(s, p) ==
    IF s = <<>> THEN <<p>>
    ELSE IF s[Len(s)][1] <= p[1] THEN Append(s, p)
    ELSE Append(InsertarEstable(SubSeq(s, 1, Len(s) - 1), p), s[Len(s)])

RECURSIVE SortPares(_)
SortPares(ps) ==
    IF ps = <<>> THEN <<>>
    ELSE InsertarEstable(SortPares(SubSeq(ps, 1, Len(ps) - 1)), ps[Len(ps)])

\* s sorted by the keys claves[i] of its elements s[i].
SortEstable(s, claves) ==
    LET ps == [i \in DOMAIN s |-> <<claves[i], s[i]>>]
        qs == SortPares(ps)
    IN  [i \in DOMAIN s |-> qs[i][2]]

RECURSIVE Concatenar(_)
Concatenar(ss) ==
    IF ss = <<>> THEN <<>> ELSE Head(ss) \o Concatenar(Tail(ss))

-----------------------------------------------------------------------------
(* database.py: the two SQL queries over telemetria_sensores               *)

Max(S) == CHOOSE x \in S : \A y \in S : y <= x

\* ORDER BY t.temperatura DESC, t.ubicacion (NULL sorts last under DESC).
AntesLatest(a, b) ==
    IF a.temperatura = None \/ b.temperatura = None
    THEN IF a.temperatura = None /\ b.temperatura = None
         THEN a.ubicacion <= b.ubicacion
         ELSE b.temperatura = None
    ELSE \/ a.temperatura[1] > b.temperatura[1]
         \/ a.temperatura[1] = b.temperatura[1] /\ a.ubicacion <= b.ubicacion

\* The rows of S as the sequence ORDER BY t.temperatura DESC, t.ubicacion
\* puts them in.
RECURSIVE OrdenLatest(_)
OrdenLatest(S) ==
    IF S = {} THEN <<>>
    ELSE LET primero == CHOOSE x \in S : \A y \in S : AntesLatest(x, y)
         IN  <<primero>> \o OrdenLatest(S \ {primero})

\* The rows holding, per location, the greatest fecha_hora; location_filter
\* None selects every location.
get_latest_readings(t, location_filter) ==
    LET sel == {r \in t : location_filter = None \/ r.ubicacion = location_filter[1]}
        max_fecha(u) == Max({r.fecha_hora : r \in {x \in sel : x.ubicacion = u}})
        data == {r \in t : \E x \in sel : r.ubicacion = x.ubicacion
                                          /\ r.fecha_hora = max_fecha(x.ubicacion)}
    IN  OrdenLatest(data)

\* ORDER BY ubicacion, fecha_hora DESC.
AntesVentana(a, b) ==
    \/ a.ubicacion < b.ubicacion
    \/ a.ubicacion = b.ubicacion /\ a.fecha_hora >= b.fecha_hora

\* Every order ORDER BY ubicacion, fecha_hora DESC may give the rows of S:
\* rows of one location with equal fecha_hora come in either order.
RECURSIVE OrdenesVentana(_)
OrdenesVentana(S) ==
    IF S = {} THEN {<<>>}
    ELSE UNION {{<<x>> \o resto : resto \in OrdenesVentana(S \ {x})} :
                  x \in {x \in S : \A y \in S : AntesVentana(x, y)}}

\* Every result the window query of detect_temperature_spikes may return:
\* the rows of the last 20 minutes that have a temperature.
VentanaRows(t, ahora_bd, location) ==
    OrdenesVentana({r \in t : /\ r.fecha_hora >= ahora_bd - 20
                              /\ r.temperatura # None
                              /\ (location = None \/ r.ubicacion = location[1])})

-----------------------------------------------------------------------------
(* Alerts                                                                  *)

Alerta(u, nivel, texto) == [ubicacion |-> u, nivel |-> nivel, texto |-> texto]

\* prioridad.get(x["nivel"], defecto)
prioridad(nivel, defecto) ==
    CASE nivel = "roja" -> 0
      [] nivel = "amarilla" -> 1
      [] nivel = "azul" -> 2
      [] OTHER -> defecto

-----------------------------------------------------------------------------
(* database.py: detect_temperature_spikes, the part after the query        *)

\* datos: the locations in order of first appearance in rows.
RECURSIVE Claves(_)
Claves(rows) ==
    IF rows = <<>> THEN <<>>
    ELSE LET resto == Claves(SubSeq(rows, 1, Len(rows) - 1))
             u == rows[Len(rows)].ubicacion
         IN  IF u \in Range(resto) THEN resto ELSE Append(resto, u)

fecha_key(r) == r.fecha_hora

\* The classification with the rise rules in the other order.
clasificar_spike_invertida(ubicacion, delta_temp, delta_min) ==
    IF delta_temp >= 25 /\ delta_min <= 10
    THEN <<Alerta(ubicacion, "amarilla", <<"Subida rapida", ubicacion, delta_temp, delta_min>>)>>
    ELSE IF delta_temp >= 40 /\ delta_min <= 10
    THEN <<Alerta(ubicacion, "roja", <<"SUBIDA CRITICA", ubicacion, delta_temp, delta_min>>)>>
    ELSE IF delta_temp <= -50 /\ delta_min <= 15
    THEN <<Alerta(ubicacion, "azul", <<"Bajada brusca", ubicacion, delta_temp, delta_min>>)>>
    ELSE <<>>

\* The classification of one (delta_temp, delta_min), lines 201-206.
clasificar_spike(ubicacion, delta_temp, delta_min) ==
    IF delta_temp >= 40 /\ delta_min <= 10
    THEN <<Alerta(ubicacion, "roja", <<"SUBIDA CRITICA", ubicacion, delta_temp, delta_min>>)>>
    ELSE IF delta_temp >= 25 /\ delta_min <= 10
    THEN <<Alerta(ubicacion, "amarilla", <<"Subida rapida", ubicacion, delta_temp, delta_min>>)>>
    ELSE IF delta_temp <= -50 /\ delta_min <= 15
    THEN <<Alerta(ubicacion, "azul", <<"Bajada brusca", ubicacion, delta_temp, delta_min>>)>>
    ELSE <<>>

\* The guard letting a zero delta_min through.
fuera_de_rango_cero(delta_min) == delta_min < 0 \/ delta_min > 20

\* The guard of line 196.
fuera_de_rango(delta_min) == delta_min <= 0 \/ delta_min > 20

\* The loop body comparing the latest reading with the oldest of the window.
spike_de_ubicacion_primera(ubicacion, grupo) ==
    IF Len(grupo) < 2 THEN <<>>
    ELSE LET lecturas == SortEstable(grupo, [i \in DOMAIN grupo |-> fecha_key(grupo[i])])
             ultima == lecturas[Len(lecturas)]
             anterior == lecturas[1]
             delta_temp == ultima.temperatura[1] - anterior.temperatura[1]
             delta_min == ultima.fecha_hora - anterior.fecha_hora
         IN  IF fuera_de_rango(delta_min) THEN <<>>
             ELSE clasificar_spike(ubicacion, delta_temp, delta_min)

\* The loop body comparing every reading with the one before it.
spike_de_ubicacion_todas(ubicacion, grupo) ==
    IF Len(grupo) < 2 THEN <<>>
    ELSE LET lecturas == SortEstable(grupo, [i \in DOMAIN grupo |-> fecha_key(grupo[i])])
             par(i) ==
                 LET delta_temp == lecturas[i + 1].temperatura[1] - lecturas[i].temperatura[1]
                     delta_min == lecturas[i + 1].fecha_hora - lecturas[i].fecha_hora
                 IN  IF fuera_de_rango(delta_min) THEN <<>>
                     ELSE clasificar_spike(ubicacion, delta_temp, delta_min)
         IN  Concatenar([i \in 1..(Len(lecturas) - 1) |-> par(i)])

\* One iteration of the loop over datos.items(): the alerts it appends.
spike_de_ubicacion(ubicacion, grupo) ==
    IF Len(grupo) < 2 THEN <<>>
    ELSE LET lecturas == SortEstable(grupo, [i \in DOMAIN grupo |-> fecha_key(grupo[i])])
             ultima == lecturas[Len(lecturas)]
             cand == {i \in 1..(Len(lecturas) - 1) : lecturas[i].temperatura # None}
         IN  IF cand = {} THEN <<>>
             ELSE LET anterior == lecturas[Max(cand)]
                      delta_temp == ultima.temperatura[1] - anterior.temperatura[1]
                      delta_min == ultima.fecha_hora - anterior.fecha_hora
                  IN  IF fuera_de_rango(delta_min) THEN <<>>
                      ELSE clasificar_spike(ubicacion, delta_temp, delta_min)

nivel_key_spikes(a) == prioridad(a.nivel, 9)

detect_temperature_spikes(rows) ==
    IF rows = <<>> THEN <<>>
    ELSE LET claves == Claves(rows)
             grupo(u) == SelectSeq(rows, LAMBDA r : r.ubicacion = u)
             sin_ordenar == Concatenar([k \in DOMAIN claves |->
                                spike_de_ubicacion(claves[k], grupo(claves[k]))])
         IN  SortEstable(sin_ordenar,
                         [i \in DOMAIN sin_ordenar |-> nivel_key_spikes(sin_ordenar[i])])

-----------------------------------------------------------------------------
(* alertas.py: generar_alertas                                             *)

\* The threshold rules with exclusive bounds.
alerta_umbral_estricta(r, thresholds) ==
    IF r.temperatura[1] > thresholds.danger
    THEN <<Alerta(r.ubicacion, "roja", <<"TEMPERATURA CRITICA", r.temperatura[1], r.ubicacion>>)>>
    ELSE IF r.temperatura[1] > thresholds.warning
    THEN <<Alerta(r.ubicacion, "amarilla", <<"Temperatura elevada", r.temperatura[1], r.ubicacion>>)>>
    ELSE <<>>

\* The threshold rules naming the critical level "rojo".
alerta_umbral_rojo(r, thresholds) ==
    IF r.temperatura[1] >= thresholds.danger
    THEN <<Alerta(r.ubicacion, "rojo", <<"TEMPERATURA CRITICA", r.temperatura[1], r.ubicacion>>)>>
    ELSE IF r.temperatura[1] >= thresholds.warning
    THEN <<Alerta(r.ubicacion, "amarilla", <<"Temperatura elevada", r.temperatura[1], r.ubicacion>>)>>
    ELSE <<>>

\* One iteration of the loop over lecturas (lines 72-86), temp present.
alerta_umbral(r, thresholds) ==
    IF r.temperatura[1] >= thresholds.danger
    THEN <<Alerta(r.ubicacion, "roja", <<"TEMPERATURA CRITICA", r.temperatura[1], r.ubicacion>>)>>
    ELSE IF r.temperatura[1] >= thresholds.warning
    THEN <<Alerta(r.ubicacion, "amarilla", <<"Temperatura elevada", r.temperatura[1], r.ubicacion>>)>>
    ELSE <<>>

nivel_key(a) == prioridad(a.nivel, 99)

\* The value generar_alertas returns, or the exception it raises.  None >= x
\* raises TypeError, so a reading without temperature aborts the call.
Excepcion(tipo) == [exc |-> tipo, alertas |-> <<>>]
Retorno(as) == [exc |-> "", alertas |-> as]

\* The list 'alertas' before the sort of line 99: the threshold alerts in the
\* order of lecturas, then the spike alerts.
alertas_umbral(cfg, lecturas) ==
    Concatenar([i \in DOMAIN lecturas |-> alerta_umbral(lecturas[i], cfg.thresholds)])

alertas_spikes(cfg, rows) ==
    IF cfg.detectar_spikes THEN detect_temperature_spikes(rows) ELSE <<>>

\* generar_alertas without the sort of line 99.
generar_alertas_sin_sort(cfg, lecturas, rows) ==
    IF \E i \in DOMAIN lecturas : lecturas[i].temperatura = None
    THEN Excepcion("TypeError")
    ELSE Retorno(alertas_umbral(cfg, lecturas) \o alertas_spikes(cfg, rows))

\* generar_alertas dropping the spike alert of a location that already has a
\* threshold alert.
generar_alertas_dedup(cfg, lecturas, rows) ==
    IF \E i \in DOMAIN lecturas : lecturas[i].temperatura = None
    THEN Excepcion("TypeError")
    ELSE LET umbral == alertas_umbral(cfg, lecturas)
             spikes == SelectSeq(alertas_spikes(cfg, rows),
                                 LAMBDA a : \A i \in DOMAIN umbral :
                                                umbral[i].ubicacion # a.ubicacion)
             previas == umbral \o spikes
         IN  Retorno(SortEstable(previas, [i \in DOMAIN previas |-> nivel_key(previas[i])]))

generar_alertas(cfg, lecturas, rows) ==
    IF \E i \in DOMAIN lecturas : lecturas[i].temperatura = None
    THEN Excepcion("TypeError")
    ELSE LET previas == alertas_umbral(cfg, lecturas) \o alertas_spikes(cfg, rows)
         IN  Retorno(SortEstable(previas, [i \in DOMAIN previas |-> nivel_key(previas[i])]))

-----------------------------------------------------------------------------
(* alertas_manager.py: AlertManager                                        *)

\* The throttle with the window one minute too short.
no_toca_corto(last, t, intervalo) ==
    last # None /\ t - last[1] < intervalo - 1

\* Line 83: the throttle.  A datetime is always truthy.
no_toca(last, t, intervalo) ==
    last # None /\ t - last[1] < intervalo

\* proximo_envio without the interval added.
proximo_envio_sin_intervalo(last, cfg) ==
    IF last # None THEN Some(last[1]) ELSE None

\* proximo_envio, lines 124-129.
proximo_envio(last, cfg) ==
    IF last # None THEN Some(last[1] + cfg.intervalo_envio_min) ELSE None

-----------------------------------------------------------------------------
(* Initial states                                                          *)

SinLlamada ==
    [op |-> "ninguna", location |-> None, lecturas |-> <<>>, rows |-> <<>>,
     previas |-> <<>>, res |-> Retorno(<<>>)]

\* No status request answered yet.
SinEstado ==
    [exc |-> "ninguna", ultima_envio |-> None, alertas_enviadas |-> <<>>,
     proximo_envio_aproximado |-> None]

SinTick == [fin |-> "ninguno", exc |-> "", agregador |-> FALSE, despacho |-> FALSE]

\* The table contents the store is seen to hold while the scheduler runs.
TablasServicio ==
    { {},
      {Fila(1, Some(150), 1)},
      {Fila(1, Some(240), 1)},
      {Fila(1, Some(200), 0), Fila(1, Some(240), 1), Fila(2, Some(200), 1)},
      {Fila(1, Some(240), 1), Fila(2, None, 1)} }


\* AlertManager.__init__ (lines 45-47) and the start of loop_envio_alertas.
InitManager ==
    /\ last_alert_sent = None
    /\ ultimas_alertas = <<>>
    /\ pc = "tick"
    /\ despertar = 0
    /\ ahora = 0
    /\ alertas = <<>>
    /\ pendientes = <<>>
    /\ ultimo_tick = SinTick
    /\ envios = <<>>
    /\ correos = <<>>
    /\ llamada = SinLlamada
    /\ ultimo_lote = <<>>
    /\ estado = SinEstado

Init ==
    /\ now = 0
    /\ tabla \in TablasServicio
    /\ config \in [thresholds : Umbrales, detectar_spikes : {TRUE},
                   enabled : BOOLEAN, intervalo_envio_min : Intervalos,
                   destinatarios : Destinatarios]
    /\ InitManager

-----------------------------------------------------------------------------
(* The environment: clock, configuration file, sensors                     *)

Tic ==
    /\ now < MaxNow
    /\ now' = now + 1
    /\ UNCHANGED <<tabla, config, last_alert_sent, ultimas_alertas, pc, despertar,
                   ahora, alertas, pendientes, ultimo_tick, envios, ultimo_lote,
                   correos, llamada, estado>>

\* Somebody edits config/parametros.json: e-mail dispatch is switched.
CambiarConfig ==
    /\ config' = [config EXCEPT !.enabled = ~@]
    /\ UNCHANGED <<now, tabla, last_alert_sent, ultimas_alertas, pc, despertar, ahora,
                   alertas, pendientes, ultimo_tick, envios, ultimo_lote, correos,
                   llamada, estado>>

\* Sensors write, old rows are purged.
CambiarTabla ==
    /\ tabla' \in TablasServicio \ {tabla}
    /\ UNCHANGED <<now, config, last_alert_sent, ultimas_alertas, pc, despertar, ahora,
                   alertas, pendientes, ultimo_tick, envios, ultimo_lote, correos,
                   llamada, estado>>

-----------------------------------------------------------------------------
(* main.py: loop_envio_alertas; alertas_manager.py: enviar_alertas_si_toca *)

\* The tick returns (line 78, 84, 89 or the end of the method): the loop goes
\* to asyncio.sleep(60) of line 204.
Volver(fin, agregador, despacho) ==
    /\ pc' = "sleep"
    /\ despertar' = now + 1
    /\ ultimo_tick' = [fin |-> fin, exc |-> "", agregador |-> agregador,
                       despacho |-> despacho]
    /\ ahora' = 0
    /\ alertas' = <<>>
    /\ pendientes' = <<>>

\* The tick raises: control goes to the except clause of line 202.
Lanzar(tipo, agregador, despacho) ==
    /\ pc' = "except"
    /\ ultimo_tick' = [fin |-> "excepcion", exc |-> tipo, agregador |-> agregador,
                       despacho |-> despacho]
    /\ ahora' = 0
    /\ alertas' = <<>>
    /\ pendientes' = <<>>
    /\ UNCHANGED despertar

\* The tick as it would be with line 93 moved behind the for-loop: the batch
\* is handed to the sending part with last_alert_sent not yet written.
GuardarEstado_tarde(as) ==
    /\ ultimas_alertas' = as
    /\ UNCHANGED last_alert_sent
    /\ envios' = Append(envios, now)
    /\ ultimo_lote' = as
    /\ correos' = <<>>
    /\ ahora' = now
    /\ alertas' = as
    /\ pendientes' = config.destinatarios
    /\ ultimo_tick' = [fin |-> "despachando", exc |-> "", agregador |-> TRUE,
                       despacho |-> TRUE]
    /\ pc' = "credenciales"
    /\ UNCHANGED despertar

\* Lines 92-93 with an await between them, as a reader scheduled there would
\* find the manager: the time written, the batch not yet.
GuardarEstado_partido(as) ==
    /\ last_alert_sent' = Some(now)
    /\ UNCHANGED ultimas_alertas
    /\ envios' = Append(envios, now)
    /\ ultimo_lote' = as
    /\ correos' = <<>>
    /\ Volver("enviado", TRUE, TRUE)

\* Lines 92-93 ("Guardar estado") and the hand-over to the sending part.
GuardarEstado(as) ==
    /\ ultimas_alertas' = as
    /\ last_alert_sent' = Some(now)
    /\ envios' = Append(envios, now)
    /\ ultimo_lote' = as
    /\ correos' = <<>>
    /\ ahora' = now
    /\ alertas' = as
    /\ pendientes' = config.destinatarios
    /\ ultimo_tick' = [fin |-> "despachando", exc |-> "", agregador |-> TRUE,
                       despacho |-> TRUE]
    /\ pc' = "credenciales"
    /\ UNCHANGED despertar

\* Lines 88-89, the empty aggregation, as it would be if it recorded the
\* check as a dispatch.
SinAlertas_consume ==
    /\ Volver("sin_alertas", TRUE, FALSE)
    /\ last_alert_sent' = Some(now)
    /\ UNCHANGED <<ultimas_alertas, envios, ultimo_lote, correos>>

\* Lines 88-89 as they would be if the empty check cleared the batch.
SinAlertas_vacia ==
    /\ Volver("sin_alertas", TRUE, FALSE)
    /\ ultimas_alertas' = <<>>
    /\ UNCHANGED <<last_alert_sent, envios, ultimo_lote, correos>>

\* Lines 88-89 as they would be with the test behind the state save: the
\* empty list and the time are stored.
SinAlertas_guarda ==
    /\ Volver("sin_alertas", TRUE, FALSE)
    /\ last_alert_sent' = Some(now)
    /\ ultimas_alertas' = <<>>
    /\ UNCHANGED <<envios, ultimo_lote, correos>>

\* Lines 88-89: 'if not alertas: return'.
SinAlertas ==
    /\ Volver("sin_alertas", TRUE, FALSE)
    /\ UNCHANGED <<last_alert_sent, ultimas_alertas, envios, ultimo_lote, correos>>

\* The e-mail switch read as always on.
deshabilitado_nunca(cfg) == FALSE

\* Line 77: 'if not email_cfg.get("enabled", False)'.
deshabilitado(cfg) == ~cfg.enabled

\* The store failure of line 87 as it would be if the state were written
\* before aggregating.
FalloAlmacen_guarda ==
    /\ Lanzar("mariadb.Error", TRUE, FALSE)
    /\ last_alert_sent' = Some(now)
    /\ UNCHANGED <<ultimas_alertas, envios, ultimo_lote, correos>>

\* Line 87 with the store failing: mariadb.Error leaves generar_alertas and
\* enviar_alertas_si_toca before lines 92-93 are reached.
FalloAlmacen ==
    /\ Lanzar("mariadb.Error", TRUE, FALSE)
    /\ UNCHANGED <<last_alert_sent, ultimas_alertas, envios, ultimo_lote, correos>>

\* Lines 74-93, run without suspension: generar_alertas and
\* detect_temperature_spikes hold no await that yields to the event loop.
\* carga_ok: load_config succeeds; bd_ok: the store answers both queries.
TickInicio ==
    /\ pc = "tick"
    /\ \E carga_ok, bd_ok \in BOOLEAN :
        IF ~carga_ok
        THEN /\ Lanzar("OSError", FALSE, FALSE)
             /\ UNCHANGED <<last_alert_sent, ultimas_alertas, envios, ultimo_lote, correos>>
        ELSE IF deshabilitado(config)
        THEN /\ Volver("deshabilitado", FALSE, FALSE)
             /\ UNCHANGED <<last_alert_sent, ultimas_alertas, envios, ultimo_lote, correos>>
        ELSE IF no_toca(last_alert_sent, now, config.intervalo_envio_min)
        THEN /\ Volver("no_toca", FALSE, FALSE)
             /\ UNCHANGED <<last_alert_sent, ultimas_alertas, envios, ultimo_lote, correos>>
        ELSE IF ~bd_ok
        THEN FalloAlmacen
        ELSE \E rows \in VentanaRows(tabla, now, None) :
                LET res == generar_alertas(config, get_latest_readings(tabla, None), rows)
                IN  IF res.exc # ""
                    THEN /\ Lanzar(res.exc, TRUE, FALSE)
                         /\ UNCHANGED <<last_alert_sent, ultimas_alertas, envios,
                                        ultimo_lote, correos>>
                    ELSE IF res.alertas = <<>>
                    THEN SinAlertas
                    ELSE GuardarEstado(res.alertas)
    /\ UNCHANGED <<now, tabla, config, llamada, estado>>

\* Lines 95-102: the HTML body and load_smtp_credentials, which may raise.
TickCredenciales ==
    /\ pc = "credenciales"
    /\ \E cred_ok \in BOOLEAN :
        IF cred_ok
        THEN /\ pc' = "enviando"
             /\ UNCHANGED <<despertar, ahora, alertas, pendientes, ultimo_tick>>
        ELSE Lanzar("OSError", TRUE, TRUE)
    /\ UNCHANGED <<now, tabla, config, last_alert_sent, ultimas_alertas, envios,
                   ultimo_lote, correos, llamada, estado>>

\* correo.py, EnviarCorreoSSL: "ok" the mail left; "fallo" an smtplib
\* exception was caught (lines 107-121) and (False, Errores) returned;
\* "excepcion" an exception the function does not catch (OSError of the
\* connection: refused, unreachable, timed out, TLS failure) leaves it.
EnviarCorreoSSL == {"ok", "fallo", "excepcion"}

\* One iteration of the for-loop of lines 105-113.
TickEnviar ==
    /\ pc = "enviando"
    /\ pendientes # <<>>
    /\ \E r \in EnviarCorreoSSL :
        /\ correos' = Append(correos, [dest |-> Head(pendientes), res |-> r])
        /\ IF r = "excepcion"
           THEN Lanzar("OSError", TRUE, TRUE)
           ELSE /\ pendientes' = Tail(pendientes)
                /\ UNCHANGED <<pc, despertar, ahora, alertas, ultimo_tick>>
    /\ UNCHANGED <<now, tabla, config, last_alert_sent, ultimas_alertas, envios,
                   ultimo_lote, llamada, estado>>

\* Line 115 and the return.
TickFin ==
    /\ pc = "enviando"
    /\ pendientes = <<>>
    /\ Volver("enviado", TRUE, TRUE)
    /\ UNCHANGED <<now, tabla, config, last_alert_sent, ultimas_alertas, envios,
                   ultimo_lote, correos, llamada, estado>>

\* The loop as it would be without the try/except of lines 200-203: the
\* exception leaves loop_envio_alertas and the task ends.
LoopExcept_sin_try ==
    /\ pc = "except"
    /\ pc' = "terminado"
    /\ UNCHANGED <<now, tabla, config, last_alert_sent, ultimas_alertas, despertar,
                   ahora, alertas, pendientes, ultimo_tick, envios, ultimo_lote,
                   correos, llamada, estado>>

\* main.py lines 202-204: the exception is printed, the loop sleeps.
LoopExcept ==
    /\ pc = "except"
    /\ pc' = "sleep"
    /\ despertar' = now + 1
    /\ UNCHANGED <<now, tabla, config, last_alert_sent, ultimas_alertas, ahora,
                   alertas, pendientes, ultimo_tick, envios, ultimo_lote, correos,
                   llamada, estado>>

\* The loop as it would be with a timer that starts a tick every period
\* whether or not the tick before has finished sending.
LoopDespertar_temporizador ==
    /\ pc \in {"sleep", "enviando"}
    /\ now >= despertar
    /\ pc' = "tick"
    /\ UNCHANGED <<now, tabla, config, last_alert_sent, ultimas_alertas, despertar,
                   ahora, alertas, pendientes, ultimo_tick, envios, ultimo_lote,
                   correos, llamada, estado>>

\* asyncio.sleep(60) returns once the tick period has passed.
LoopDespertar ==
    /\ pc = "sleep"
    /\ now >= despertar
    /\ pc' = "tick"
    /\ UNCHANGED <<now, tabla, config, last_alert_sent, ultimas_alertas, despertar,
                   ahora, alertas, pendientes, ultimo_tick, envios, ultimo_lote,
                   correos, llamada, estado>>

Next ==
    \/ Tic
    \/ CambiarConfig
    \/ CambiarTabla
    \/ TickInicio
    \/ TickCredenciales
    \/ TickEnviar
    \/ TickFin
    \/ LoopExcept
    \/ LoopDespertar

Spec == Init /\ [][Next]_vars

-----------------------------------------------------------------------------
(* Direct calls of the alert functions on arbitrary table contents         *)

\* The tables of at most n rows.
RECURSIVE TablasHasta(_)
TablasHasta(n) ==
    IF n = 0 THEN {{}}
    ELSE LET menores == TablasHasta(n - 1)
         IN  menores \cup {t \cup {r} : t \in menores, r \in Filas}

AhorasConsulta == {20, 21}
Filtros == {None} \cup {Some(u) : u \in Ubicaciones}

InitAlg ==
    /\ now \in AhorasConsulta
    /\ tabla \in TablasHasta(MaxFilas)
    /\ config \in [thresholds : Umbrales, detectar_spikes : BOOLEAN,
                   enabled : {FALSE}, intervalo_envio_min : {2},
                   destinatarios : {<<"ops@cpd">>}]
    /\ InitManager

\* await generar_alertas(location); one call is made on each drawn input.
LlamarGenerarAlertas ==
    /\ llamada.op = "ninguna"
    /\ \E location \in Filtros, bd_ok \in BOOLEAN :
        \E rows \in VentanaRows(tabla, now, location) :
            LET lecturas == get_latest_readings(tabla, location)
            IN  llamada' =
                  IF bd_ok
                  THEN [op |-> "generar_alertas", location |-> location,
                        lecturas |-> lecturas, rows |-> rows,
                        previas |-> IF generar_alertas(config, lecturas, rows).exc = ""
                                    THEN alertas_umbral(config, lecturas)
                                         \o alertas_spikes(config, rows)
                                    ELSE <<>>,
                        res |-> generar_alertas(config, lecturas, rows)]
                  ELSE [op |-> "generar_alertas", location |-> location,
                        lecturas |-> <<>>, rows |-> <<>>, previas |-> <<>>,
                        res |-> Excepcion("mariadb.Error")]
    /\ UNCHANGED <<now, tabla, config, last_alert_sent, ultimas_alertas, pc, despertar,
                   ahora, alertas, pendientes, ultimo_tick, envios, ultimo_lote,
                   correos, estado>>

\* await detect_temperature_spikes(location), as main.py's api_alerts does.
LlamarDetectSpikes ==
    /\ llamada.op = "ninguna"
    /\ \E location \in Filtros, bd_ok \in BOOLEAN :
        \E rows \in VentanaRows(tabla, now, location) :
            llamada' =
              IF bd_ok
              THEN [op |-> "detect_temperature_spikes", location |-> location,
                    lecturas |-> <<>>, rows |-> rows, previas |-> <<>>,
                    res |-> Retorno(detect_temperature_spikes(rows))]
              ELSE [op |-> "detect_temperature_spikes", location |-> location,
                    lecturas |-> <<>>, rows |-> <<>>, previas |-> <<>>,
                    res |-> Excepcion("mariadb.Error")]
    /\ UNCHANGED <<now, tabla, config, last_alert_sent, ultimas_alertas, pc, despertar,
                   ahora, alertas, pendientes, ultimo_tick, envios, ultimo_lote,
                   correos, estado>>

NextAlg ==
    \/ LlamarGenerarAlertas
    \/ LlamarDetectSpikes

SpecAlg == InitAlg /\ [][NextAlg]_vars

-----------------------------------------------------------------------------
(* main.py: the request handlers, served by the event loop that also runs  *)
(* loop_envio_alertas                                                      *)

\* datetime.strftime("%Y-%m-%d %H:%M:%S"): the text of a time.
strftime(t) == <<"%Y-%m-%d %H:%M:%S", t>>

\* The body of GET /api/alertas-estado, lines 219-223.
alertas_estado(last, ultimas, cfg) ==
    LET proximo == proximo_envio(last, cfg)
    IN  [exc |-> "",
         ultima_envio |-> IF last # None THEN Some(strftime(last[1])) ELSE None,
         alertas_enviadas |-> ultimas,
         proximo_envio_aproximado |->
             IF proximo # None THEN Some(strftime(proximo[1])) ELSE None]

\* The body of GET /api/alerts, line 173.
RespuestaAlerts(as) == [exc |-> "", alertas |-> as, total |-> Len(as)]

\* /api/alerts answering from the configured detectors only.
api_alerts_si_configurado(cfg, rows) ==
    RespuestaAlerts(alertas_spikes(cfg, rows))

\* GET /api/alerts, lines 172-173: the spike detector alone, whatever the
\* configuration says.
api_alerts(cfg, rows) ==
    RespuestaAlerts(detect_temperature_spikes(rows))

\* No handler is running: none has a response to hand over.
EnReposo == estado = SinEstado /\ llamada = SinLlamada

\* The event loop runs one callback at a time, and a handler only while the
\* scheduler task is suspended; the task suspends at asyncio.sleep(60) alone:
\* no await of enviar_alertas_si_toca yields, EnviarCorreoSSL and the store
\* block the loop.
BucleLibre == pc = "sleep" /\ EnReposo

\* GET /api/alertas-estado; proximo_envio reads the configuration file first.
AtenderAlertasEstado ==
    /\ BucleLibre
    /\ \E carga_ok \in BOOLEAN :
        estado' = IF carga_ok
                  THEN alertas_estado(last_alert_sent, ultimas_alertas, config)
                  ELSE [SinEstado EXCEPT !.exc = "OSError"]
    /\ UNCHANGED <<now, tabla, config, last_alert_sent, ultimas_alertas, pc, despertar,
                   ahora, alertas, pendientes, ultimo_tick, envios, ultimo_lote,
                   correos, llamada>>

\* The handler as it would be if it kept its result as the last batch.
AtenderApiAlerts_escribe ==
    /\ BucleLibre
    /\ \E location \in Filtros, bd_ok \in BOOLEAN :
        \E rows \in VentanaRows(tabla, now, location) :
            /\ llamada' = [op |-> "api_alerts", location |-> location,
                           lecturas |-> <<>>, rows |-> IF bd_ok THEN rows ELSE <<>>,
                           previas |-> <<>>,
                           res |-> IF bd_ok THEN api_alerts(config, rows)
                                   ELSE Excepcion("mariadb.Error")]
            /\ ultimas_alertas' = IF bd_ok THEN api_alerts(config, rows).alertas
                                  ELSE ultimas_alertas
    /\ UNCHANGED <<now, tabla, config, last_alert_sent, pc, despertar,
                   ahora, alertas, pendientes, ultimo_tick, envios, ultimo_lote,
                   correos, estado>>

\* GET /api/alerts?location=...: a store failure leaves the handler as an
\* exception, which the framework answers with an error response.
AtenderApiAlerts ==
    /\ BucleLibre
    /\ \E location \in Filtros, bd_ok \in BOOLEAN :
        \E rows \in VentanaRows(tabla, now, location) :
            llamada' = [op |-> "api_alerts", location |-> location,
                        lecturas |-> <<>>, rows |-> IF bd_ok THEN rows ELSE <<>>,
                        previas |-> <<>>,
                        res |-> IF bd_ok THEN api_alerts(config, rows)
                                ELSE Excepcion("mariadb.Error")]
    /\ UNCHANGED <<now, tabla, config, last_alert_sent, ultimas_alertas, pc, despertar,
                   ahora, alertas, pendientes, ultimo_tick, envios, ultimo_lote,
                   correos, estado>>

\* One round of the push loop of /ws/{location_filter}, lines 141-153: the
\* latest readings are read and sent; any exception ends the connection.
AtenderWebsocket ==
    /\ BucleLibre
    /\ \E location \in Filtros, bd_ok \in BOOLEAN :
        llamada' = [op |-> "websocket", location |-> location,
                    lecturas |-> IF bd_ok THEN get_latest_readings(tabla, location)
                                 ELSE <<>>,
                    rows |-> <<>>, previas |-> <<>>,
                    res |-> IF bd_ok THEN Retorno(<<>>) ELSE Excepcion("mariadb.Error")]
    /\ UNCHANGED <<now, tabla, config, last_alert_sent, ultimas_alertas, pc, despertar,
                   ahora, alertas, pendientes, ultimo_tick, envios, ultimo_lote,
                   correos, estado>>

\* The handler returns: the framework sends its response (or the error
\* response for its exception) and the event loop is free again.
Responder ==
    /\ ~EnReposo
    /\ estado' = SinEstado
    /\ llamada' = SinLlamada
    /\ UNCHANGED <<now, tabla, config, last_alert_sent, ultimas_alertas, pc, despertar,
                   ahora, alertas, pendientes, ultimo_tick, envios, ultimo_lote,
                   correos>>

InitServicio ==
    /\ now = 0
    /\ tabla \in TablasServicio
    /\ config \in [thresholds : Umbrales, detectar_spikes : BOOLEAN,
                   enabled : BOOLEAN, intervalo_envio_min : {2},
                   destinatarios : {<<"ops@cpd">>}]
    /\ InitManager

\* A handler runs to its return without any other step of the service.
NextServicio ==
    \/ EnReposo /\ Tic
    \/ EnReposo /\ CambiarConfig
    \/ EnReposo /\ CambiarTabla
    \/ EnReposo /\ TickInicio
    \/ EnReposo /\ TickCredenciales
    \/ EnReposo /\ TickEnviar
    \/ EnReposo /\ TickFin
    \/ EnReposo /\ LoopExcept
    \/ EnReposo /\ LoopDespertar
    \/ AtenderAlertasEstado
    \/ AtenderApiAlerts
    \/ AtenderWebsocket
    \/ Responder

SpecServicio == InitServicio /\ [][NextServicio]_vars

-----------------------------------------------------------------------------
(* Properties of the dispatch scheduler (specification Spec)               *)

Intervalo == config.intervalo_envio_min

\* A step in which a started tick runs lines 74-93.
PasoTick == pc = "tick" /\ pc' # "tick"

\* What generar_alertas() returns on the current table: some / every result
\* carries alerts, none raises.
HayAlertas ==
    \A rows \in VentanaRows(tabla, now, None) :
        LET res == generar_alertas(config, get_latest_readings(tabla, None), rows)
        IN  res.exc = "" /\ res.alertas # <<>>

NoHayAlertas ==
    \A rows \in VentanaRows(tabla, now, None) :
        LET res == generar_alertas(config, get_latest_readings(tabla, None), rows)
        IN  res.exc = "" /\ res.alertas = <<>>

LoteActual ==
    {generar_alertas(config, get_latest_readings(tabla, None), rows).alertas :
        rows \in VentanaRows(tabla, now, None)}

DestinosLlamados == [i \in DOMAIN correos |-> correos[i].dest]

\* The throttle condition of the claims, on the current state.
Limitado == last_alert_sent # None /\ now - last_alert_sent[1] < Intervalo

\* A throttled tick calls neither generar_alertas nor EnviarCorreoSSL and
\* leaves the dispatch state alone.
C1_PasoLimitado ==
    (PasoTick /\ Limitado)
        => /\ ~ultimo_tick'.agregador
           /\ pc' \in {"sleep", "except"}
           /\ UNCHANGED <<last_alert_sent, ultimas_alertas, envios, ultimo_lote, correos>>

\* Any two dispatches are at least one interval apart.
C1_Separados ==
    \A i, j \in DOMAIN envios : i < j => envios[j] - envios[i] >= Intervalo

\* C1 (throttle): with a fixed configured interval, a tick that runs while
\* last_alert_sent is set and now - last_alert_sent < interval calls neither
\* generar_alertas nor EnviarCorreoSSL and changes no dispatch state; and any
\* two dispatches are at least one interval apart, so two ticks inside one
\* interval give one batch of mail.
C1_Throttle == [][C1_PasoLimitado]_vars /\ []C1_Separados

\* Two dispatches happened and a later tick was skipped by the throttle.
C1_Witness ==
    /\ ultimo_tick.fin = "no_toca"
    /\ Len(envios) >= 2
    /\ correos # <<>>

\* A due tick with e-mail enabled and alerts present saves the dispatch state.
C2_PasoDespacha ==
    (PasoTick /\ config.enabled /\ ~Limitado /\ HayAlertas /\ pc' # "except")
        => /\ last_alert_sent' = Some(now)
           /\ ultimas_alertas' \in LoteActual
           /\ ultimo_tick'.despacho

\* Once a dispatching tick that reached the Mailer is over, every configured
\* recipient has been called once, in order.
C2_TodosLlamados ==
    (pc \in {"sleep", "except"} /\ ultimo_tick.despacho /\ correos # <<>>)
        => DestinosLlamados = config.destinatarios

\* C2: a due tick with e-mail enabled whose aggregation returns alerts sets
\* last_alert_sent to the tick's time and ultimas_alertas to that batch, and
\* calls EnviarCorreoSSL exactly once for each configured recipient.
C2_DespachoCompleto == [][C2_PasoDespacha]_vars /\ []C2_TodosLlamados

\* A due tick that finds no alert returns without touching the state.
C3_PasoVacio ==
    (PasoTick /\ config.enabled /\ ~Limitado /\ NoHayAlertas /\ pc' # "except")
        => /\ ultimo_tick'.fin = "sin_alertas"
           /\ pc' = "sleep"
           /\ UNCHANGED <<last_alert_sent, ultimas_alertas, envios, ultimo_lote, correos>>

\* After an empty tick a dispatch is still due, however much time passed.
C3_SigueTocando == ultimo_tick.fin = "sin_alertas" => ~Limitado

\* The tick after an empty tick dispatches if it finds alerts.
C3_PasoSiguiente ==
    (PasoTick /\ ultimo_tick.fin = "sin_alertas" /\ config.enabled /\ HayAlertas
       /\ pc' # "except")
        => /\ last_alert_sent' = Some(now)
           /\ envios' = Append(envios, now)

\* C3: a tick whose aggregation returns no alert leaves last_alert_sent (and
\* ultimas_alertas) unchanged and sends no mail; the throttle window is not
\* consumed: after such a tick a dispatch is still due, and the next tick
\* that finds an alert dispatches, however soon it runs.
C3_CicloVacio == [][C3_PasoVacio /\ C3_PasoSiguiente]_vars /\ []C3_SigueTocando

\* After a dispatch a tick found no alert; the next tick starts one tick
\* period later, e-mail enabled, alerts present.
C3_Witness ==
    /\ pc = "tick"
    /\ ultimo_tick.fin = "sin_alertas"
    /\ last_alert_sent # None
    /\ now = despertar
    /\ config.enabled
    /\ HayAlertas

\* A call of EnviarCorreoSSL that does not succeed keeps the state and lets
\* the for-loop go on with the next recipient.
C8_PasoFallo ==
    (correos' # correos /\ correos' # <<>> /\ correos'[Len(correos')].res # "ok")
        => /\ UNCHANGED <<last_alert_sent, ultimas_alertas>>
           /\ pc' = "enviando"
           /\ pendientes' = Tail(pendientes)

\* C8: a failure of EnviarCorreoSSL for one recipient does not roll back
\* last_alert_sent / ultimas_alertas, does not keep the Mailer from being
\* called for the remaining recipients of the tick, and does not stop the
\* scheduler loop.
C8_FalloAislado == [][C8_PasoFallo]_vars

\* While the tick loads credentials or sends, the state is already saved.
C10_EstadoAntes ==
    pc \in {"credenciales", "enviando"}
        => /\ last_alert_sent = Some(ahora)
           /\ ultimas_alertas = alertas
           /\ alertas # <<>>

\* Every call of EnviarCorreoSSL finds the state of its own tick saved.
C10_PasoCorreo ==
    (correos' # correos /\ correos' # <<>>)
        => /\ last_alert_sent = Some(ahora)
           /\ ultimas_alertas = alertas
           /\ envios # <<>> /\ envios[Len(envios)] = ahora

\* The tick after a dispatching tick that raised, inside the interval, is
\* skipped.
C10_PasoTrasFallo ==
    (PasoTick /\ ultimo_tick.despacho /\ ultimo_tick.fin = "excepcion"
       /\ now - envios[Len(envios)] < Intervalo)
        => /\ pc' \in {"sleep", "except"}
           /\ UNCHANGED <<last_alert_sent, ultimas_alertas, envios, ultimo_lote, correos>>

\* C10: in a dispatching tick last_alert_sent and ultimas_alertas are both
\* set before the first call of EnviarCorreoSSL, so if delivery is slow or
\* fails, or the tick aborts after the state is set, the next tick inside the
\* interval is skipped and does not send again.
C10_GuardaAntesDeEnviar ==
    [][C10_PasoCorreo /\ C10_PasoTrasFallo]_vars /\ []C10_EstadoAntes

\* A tick was skipped inside the interval of a dispatch whose send raised.
C10_Witness ==
    /\ ultimo_tick.fin = "no_toca"
    /\ correos # <<>>
    /\ correos[Len(correos)].res = "excepcion"
    /\ now - envios[Len(envios)] < Intervalo

InitJusto ==
    /\ Init
    /\ config.intervalo_envio_min = 2
    /\ Len(config.destinatarios) = 1

\* The event loop resumes the scheduler task whenever it can run, every
\* blocking call of a tick returns or raises, and time passes.
FairSpec ==
    /\ InitJusto /\ [][Next]_vars
    /\ WF_vars(Tic)
    /\ WF_vars(TickInicio)
    /\ WF_vars(TickCredenciales)
    /\ WF_vars(TickEnviar)
    /\ WF_vars(TickFin)
    /\ WF_vars(LoopExcept)
    /\ WF_vars(LoopDespertar)

\* Whatever a tick does or raises, control reaches the sleep of line 204.
C9_SiempreVuelve == (pc # "sleep") ~> (pc = "sleep")

\* After the tick period another tick starts (as long as the modelled clock
\* can still reach the wake-up time).
C9_OtroTick == (pc = "sleep" /\ despertar <= MaxNow) ~> (pc = "tick")

\* A tick that runs when the interval has elapsed (or nothing was sent yet)
\* with alerts present and nothing raising dispatches.
C9_PasoDebido ==
    (PasoTick /\ ~Limitado /\ HayAlertas /\ pc' # "except")
        => /\ ultimo_tick'.despacho
           /\ envios' = Append(envios, now)

\* C9 as claimed: no failure of a tick ends loop_envio_alertas: whatever a
\* tick raises, the loop catches it and runs another tick after the tick
\* period, so ticks keep occurring, and once the interval has elapsed with
\* alerts present and no failure, a dispatch happens.
C9_LoopNuncaTermina == C9_SiempreVuelve /\ C9_OtroTick /\ [][C9_PasoDebido]_vars

\* The same with e-mail dispatch enabled at the tick.
C9_PasoDebidoHabilitado ==
    (PasoTick /\ config.enabled /\ ~Limitado /\ HayAlertas /\ pc' # "except")
        => /\ ultimo_tick'.despacho
           /\ envios' = Append(envios, now)

\* C9 as amended: no failure of a tick ends loop_envio_alertas: whatever a
\* tick raises, the loop catches it and runs another tick after the tick
\* period, so ticks keep occurring, and once the interval has elapsed with
\* e-mail dispatch enabled, alerts present and no failure, a dispatch happens.
C9_LoopNuncaTerminaHabilitado ==
    C9_SiempreVuelve /\ C9_OtroTick /\ [][C9_PasoDebidoHabilitado]_vars

\* A tick raised, the loop slept the tick period and starts another tick.
C9_Witness ==
    /\ pc = "tick"
    /\ ultimo_tick.fin = "excepcion"
    /\ now >= 1

\* C13: a tick that runs while e-mail dispatch is disabled changes neither
\* last_alert_sent nor ultimas_alertas and calls neither generar_alertas nor
\* EnviarCorreoSSL, whether or not a dispatch would otherwise be due.
C13_Deshabilitado ==
    [][(PasoTick /\ ~config.enabled)
          => /\ ~ultimo_tick'.agregador
             /\ pc' \in {"sleep", "except"}
             /\ UNCHANGED <<last_alert_sent, ultimas_alertas, envios, correos>>]_vars

\* A tick just returned at line 78 although alerts are present and the
\* interval since the last dispatch has elapsed.
C13_Witness ==
    /\ pc = "sleep" /\ despertar = now + 1
    /\ ultimo_tick.fin = "deshabilitado"
    /\ ~config.enabled
    /\ envios # <<>>
    /\ ~Limitado
    /\ HayAlertas

\* C17 as claimed: ultimas_alertas is empty before any dispatch and after a
\* tick whose check found nothing to send; otherwise it is the batch of the
\* most recent dispatch.
C17_LoteOVacio ==
    /\ envios = <<>> => ultimas_alertas = <<>>
    /\ ultimo_tick.fin = "sin_alertas" => ultimas_alertas = <<>>
    /\ (envios # <<>> /\ ultimo_tick.fin # "sin_alertas") => ultimas_alertas = ultimo_lote

\* C17 as amended: ultimas_alertas is empty before any dispatch; after one it
\* is the (non-empty) batch of the most recent dispatch, also after a tick
\* whose check found nothing to send.
C17_LoteUltimoEnvio ==
    /\ envios = <<>> => ultimas_alertas = <<>>
    /\ envios # <<>> => (ultimas_alertas = ultimo_lote /\ ultimo_lote # <<>>)

\* A tick after a dispatch found nothing to send and the batch is still held.
C17_Witness ==
    /\ ultimo_tick.fin = "sin_alertas"
    /\ envios # <<>>
    /\ ultimas_alertas # <<>>

-----
(* Properties of the alert functions (specification SpecAlg)               *)

Generada == llamada.op = "generar_alertas" /\ llamada.res.exc = ""
Detectada == llamada.op = "detect_temperature_spikes" /\ llamada.res.exc = ""

EsUmbral(a) == a.texto[1] \in {"TEMPERATURA CRITICA", "Temperatura elevada"}
EsSpike(a) == a.texto[1] \in {"SUBIDA CRITICA", "Subida rapida", "Bajada brusca"}

Niveles(as) == [i \in DOMAIN as |-> as[i].nivel]
DeNivel(as, n) == SelectSeq(as, LAMBDA a : a.nivel = n)
DeUbicacion(as, u) == SelectSeq(as, LAMBDA a : a.ubicacion = u)

\* The threshold alerts of the output that report reading r.
UmbralDe(as, r) ==
    SelectSeq(as, LAMBDA a : /\ EsUmbral(a)
                             /\ a.ubicacion = r.ubicacion
                             /\ a.texto[2] = r.temperatura[1])

\* C4: for every latest reading with a temperature, temperature >= danger
\* gives exactly one roja alert for its location, warning <= temperature <
\* danger exactly one amarilla alert, temperature < warning none; both bounds
\* are inclusive.
C4_Umbrales ==
    Generada =>
        \A i \in DOMAIN llamada.lecturas :
            LET r == llamada.lecturas[i]
                t == r.temperatura[1]
                as == UmbralDe(llamada.res.alertas, r)
            IN  /\ t >= config.thresholds.danger => Niveles(as) = <<"roja">>
                /\ (t >= config.thresholds.warning /\ t < config.thresholds.danger)
                      => Niveles(as) = <<"amarilla">>
                /\ t < config.thresholds.warning => as = <<>>

\* One call saw a reading exactly at danger, one exactly at warning and one
\* below warning.
C4_Witness ==
    /\ Generada
    /\ \E i, j, k \in DOMAIN llamada.lecturas :
          /\ llamada.lecturas[i].temperatura = Some(config.thresholds.danger)
          /\ llamada.lecturas[j].temperatura = Some(config.thresholds.warning)
          /\ llamada.lecturas[k].temperatura[1] < config.thresholds.warning

\* The rows of location u in the window, its latest time, and the reading the
\* latest one is compared with: the nearest earlier one (of several with that
\* time, the one the query returned last).
FilasDe(u) == {i \in DOMAIN llamada.rows : llamada.rows[i].ubicacion = u}
UltimaFecha(u) == Max({llamada.rows[i].fecha_hora : i \in FilasDe(u)})
Ultimas(u) == {i \in FilasDe(u) : llamada.rows[i].fecha_hora = UltimaFecha(u)}
Previas(u) == FilasDe(u) \ Ultimas(u)
FechaPrevia(u) == Max({llamada.rows[i].fecha_hora : i \in Previas(u)})
Referencia(u) == Max({i \in Previas(u) : llamada.rows[i].fecha_hora = FechaPrevia(u)})

\* A location with one latest reading and an earlier one.
Comparable(u) == Cardinality(Ultimas(u)) = 1 /\ Previas(u) # {}
DeltaMin(u) == UltimaFecha(u) - FechaPrevia(u)
DeltaTemp(u) ==
    llamada.rows[CHOOSE i \in Ultimas(u) : TRUE].temperatura[1]
        - llamada.rows[Referencia(u)].temperatura[1]

NivelEsperado(dt, dm) ==
    IF dt >= 40 /\ dm <= 10 THEN <<"roja">>
    ELSE IF dt >= 25 /\ dm <= 10 THEN <<"amarilla">>
    ELSE IF dt <= -50 /\ dm <= 15 THEN <<"azul">>
    ELSE <<>>

\* C5: for a location whose (delta_temp, delta_min) passed the guard
\* 0 < delta_min <= 20 the first matching rule decides: delta_temp >= 4.0 and
\* delta_min <= 10 roja; else delta_temp >= 2.5 and delta_min <= 10 amarilla;
\* else delta_temp <= -5.0 and delta_min <= 15 azul; else no alert.  All
\* comparisons are inclusive; the alert carries the delta and the minutes.
C5_Clasificacion ==
    Detectada =>
        \A u \in Ubicaciones :
            (FilasDe(u) # {} /\ Comparable(u) /\ DeltaMin(u) > 0 /\ DeltaMin(u) <= 20)
                => LET as == DeUbicacion(llamada.res.alertas, u)
                   IN  /\ Niveles(as) = NivelEsperado(DeltaTemp(u), DeltaMin(u))
                       /\ \A i \in DOMAIN as : /\ as[i].texto[3] = DeltaTemp(u)
                                               /\ as[i].texto[4] = DeltaMin(u)

\* A drop of exactly 5.0 in exactly 15 minutes was reported azul.
C5_Witness ==
    /\ Detectada
    /\ \E j \in DOMAIN llamada.res.alertas :
          /\ llamada.res.alertas[j].nivel = "azul"
          /\ llamada.res.alertas[j].texto[3] = -50
          /\ llamada.res.alertas[j].texto[4] = 15

\* C6: a location gives no spike alert, and the call no error, when its
\* window holds fewer than 2 readings or when delta_min between the latest
\* reading and its reference is <= 0 or > 20; an empty window gives an empty
\* result.
C6_Guardia ==
    (llamada.op = "detect_temperature_spikes" /\ llamada.res.exc # "mariadb.Error")
        => /\ llamada.res.exc = ""
           /\ llamada.rows = <<>> => llamada.res.alertas = <<>>
           /\ \A u \in Ubicaciones :
                (\/ Cardinality(FilasDe(u)) < 2
                 \/ Cardinality(Ultimas(u)) >= 2
                 \/ (Comparable(u) /\ (DeltaMin(u) <= 0 \/ DeltaMin(u) > 20)))
                    => DeUbicacion(llamada.res.alertas, u) = <<>>

\* One call saw a location with two readings of equal fecha_hora 4.0 apart
\* and the other location with a rise of 4.0 over 21 minutes or one reading.
C6_Witness ==
    /\ Detectada
    /\ llamada.res.alertas = <<>>
    /\ \E u \in Ubicaciones :
          /\ Cardinality(Ultimas(u)) = 2
          /\ {llamada.rows[i].temperatura : i \in Ultimas(u)} = {Some(200), Some(240)}
    /\ \E u \in Ubicaciones : Cardinality(FilasDe(u)) = 1

\* C7: the output of generar_alertas is the stable sort by priority
\* (roja 0, amarilla 1, azul 2) of the threshold alerts followed by the spike
\* alerts: no amarilla or azul alert precedes a roja one, no azul an amarilla
\* one, and among alerts of one level the threshold alerts come first, each
\* group in the order it was produced.
C7_OrdenEstable ==
    Generada =>
        LET sal == llamada.res.alertas
            ent == llamada.previas
        IN  /\ Len(sal) = Len(ent)
            /\ \A i, j \in DOMAIN sal :
                  i < j => /\ prioridad(sal[i].nivel, 99) <= prioridad(sal[j].nivel, 99)
                           /\ sal[i].nivel = sal[j].nivel => ~(EsSpike(sal[i]) /\ EsUmbral(sal[j]))
            /\ \A n \in {"roja", "amarilla", "azul"} : DeNivel(sal, n) = DeNivel(ent, n)
            /\ \A i \in DOMAIN sal : sal[i].nivel \in {"roja", "amarilla", "azul"}
            /\ \E k \in 0..Len(ent) : \A i \in DOMAIN ent :
                  IF i <= k THEN EsUmbral(ent[i]) ELSE EsSpike(ent[i])

\* The sort moved a roja spike alert in front of an amarilla threshold alert
\* and behind a roja threshold alert.
C7_Witness ==
    /\ Generada
    /\ llamada.previas # llamada.res.alertas
    /\ Len(llamada.res.alertas) >= 3
    /\ EsUmbral(llamada.res.alertas[1]) /\ llamada.res.alertas[1].nivel = "roja"
    /\ EsSpike(llamada.res.alertas[2]) /\ llamada.res.alertas[2].nivel = "roja"
    /\ EsUmbral(llamada.res.alertas[3]) /\ llamada.res.alertas[3].nivel = "amarilla"

\* The latest readings of the call that carry no temperature.
SinTemperatura == {i \in DOMAIN llamada.lecturas : llamada.lecturas[i].temperatura = None}

\* C11: a latest reading whose temperature is absent gives no threshold alert
\* and no error: the call returns, without an alert for that reading, the
\* alerts of all the other readings.
C11_LecturaSinTemperatura ==
    (llamada.op = "generar_alertas" /\ llamada.res.exc # "mariadb.Error"
       /\ SinTemperatura # {})
        => /\ llamada.res.exc = ""
           /\ \A i \in DOMAIN llamada.lecturas :
                LET r == llamada.lecturas[i]
                    as == SelectSeq(llamada.res.alertas,
                                    LAMBDA a : EsUmbral(a) /\ a.ubicacion = r.ubicacion)
                IN  IF i \in SinTemperatura THEN as = <<>>
                    ELSE /\ r.temperatura[1] >= config.thresholds.danger
                              => Niveles(as) = <<"roja">>
                         /\ r.temperatura[1] < config.thresholds.warning => as = <<>>

-----------------------------------------------------------------------------
(* Properties of the request handlers (specification SpecServicio)         *)

\* The status handler is returning a response, not an exception.
EstadoServido == estado.exc = ""
\* The time of the most recent "Guardar estado".
UltimoEnvio == envios[Len(envios)]

\* C12: the nextDispatchEstimate of the status response (proximo_envio) is
\* None in every state before the first dispatch and last_alert_sent + the
\* configured interval in every state after a dispatch.
C12_ProximoEnvio ==
    EstadoServido
        => /\ envios = <<>> => estado.proximo_envio_aproximado = None
           /\ envios # <<>> =>
                estado.proximo_envio_aproximado = Some(strftime(UltimoEnvio + Intervalo))

\* The status was asked after the second dispatch, past its estimate.
C12_Witness ==
    /\ EstadoServido
    /\ Len(envios) >= 2
    /\ estado.proximo_envio_aproximado = Some(strftime(UltimoEnvio + 2))
    /\ now > UltimoEnvio + 2

\* A tick whose aggregation meets a store failure ends in the except clause
\* with the dispatch state as it was and no mail sent.
C14_PasoFallo ==
    (PasoTick /\ ultimo_tick'.exc = "mariadb.Error")
        => /\ pc' = "except"
           /\ ultimo_tick'.agregador /\ ~ultimo_tick'.despacho
           /\ UNCHANGED <<last_alert_sent, ultimas_alertas, envios, correos>>

\* The loop catches it and goes to sleep.
C14_PasoCapturado ==
    (pc = "except" /\ ultimo_tick.exc = "mariadb.Error" /\ pc' # pc)
        => /\ pc' = "sleep"
           /\ UNCHANGED <<last_alert_sent, ultimas_alertas, envios, correos>>

\* No response carries the failure of a tick: a status response is an error
\* only when the status handler itself could not read the configuration, and
\* an on-demand response is the store failure only when its own query failed,
\* in which case it carries no alert list.
C14_Clientes ==
    /\ estado.exc \in {"ninguna", "", "OSError"}
    /\ (ultimo_tick.exc = "mariadb.Error" /\ EstadoServido)
          => estado = alertas_estado(last_alert_sent, ultimas_alertas, config)
    /\ llamada.res.exc \in {"", "mariadb.Error"}
    /\ llamada.res.exc = "mariadb.Error"
          => (llamada.op \in {"api_alerts", "websocket"} /\ llamada.res.alertas = <<>>)

\* C14: a store failure raised while a scheduler tick is aggregating is
\* caught inside the scheduler; the tick behaves as Skipped (last_alert_sent
\* and ultimas_alertas unchanged, EnviarCorreoSSL not called) and no error
\* reaches any client; on-demand callers receive the failure of their own
\* store access.
C14_FalloAlmacenEnTick ==
    [][C14_PasoFallo /\ C14_PasoCapturado]_vars /\ []C14_Clientes

\* After a dispatch a tick met a store failure, and so does a request to
\* /api/alerts now.
C14_Witness ==
    /\ ultimo_tick.exc = "mariadb.Error"
    /\ envios # <<>>
    /\ pc = "sleep"
    /\ llamada.op = "api_alerts"
    /\ llamada.res.exc = "mariadb.Error"

\* C15: the scheduler tick is the sole writer of the dispatch state: only the
\* step of a tick that runs lines 92-93 changes last_alert_sent or
\* ultimas_alertas; /api/alerts, /api/alertas-estado and the websocket push
\* loop, interleaved with ticks in any order, never do.
C15_UnicoEscritor ==
    [][(last_alert_sent' # last_alert_sent \/ ultimas_alertas' # ultimas_alertas)
          => (PasoTick /\ ultimo_tick'.despacho /\ EnReposo /\ EnReposo')]_vars

\* /api/alerts answers with alerts other than the batch held, between the
\* second dispatch and the next tick.
C15_Witness ==
    /\ Len(envios) >= 2
    /\ llamada.op = "api_alerts"
    /\ llamada.res.exc = ""
    /\ llamada.res.alertas # <<>>
    /\ llamada.res.alertas # ultimas_alertas

\* C16: a status read never observes a torn update: the last_alert_sent,
\* ultimas_alertas and estimate it returns are those of one and the same
\* dispatch (or of the state before any), never the batch of one dispatch
\* with the time of another.
C16_LecturaEntera ==
    EstadoServido
        => /\ envios = <<>> =>
                (estado.ultima_envio = None /\ estado.alertas_enviadas = <<>>
                   /\ estado.proximo_envio_aproximado = None)
           /\ envios # <<>> =>
                (/\ estado.ultima_envio = Some(strftime(UltimoEnvio))
                 /\ estado.alertas_enviadas = ultimo_lote
                 /\ estado.proximo_envio_aproximado
                       = Some(strftime(UltimoEnvio + Intervalo)))

\* The status is read right after the second dispatching tick returned, in
\* the minute of its dispatch.
C16_Witness ==
    /\ EstadoServido
    /\ Len(envios) >= 2
    /\ ultimo_tick.despacho
    /\ now = UltimoEnvio
    /\ estado.alertas_enviadas = ultimo_lote
    /\ Len(ultimo_lote) = 1

\* The rows of location u the response of /api/alerts was computed from give
\* this level (none for a location without a comparable pair of readings).
SpikeEsperado(u) ==
    IF FilasDe(u) # {} /\ Comparable(u) /\ DeltaMin(u) > 0 /\ DeltaMin(u) <= 20
    THEN NivelEsperado(DeltaTemp(u), DeltaMin(u))
    ELSE <<>>

\* /api/alerts is returning a response, not an exception.
AlertsServido == llamada.op = "api_alerts" /\ llamada.res.exc = ""

-----------------------------------------------------------------------------
(* Further properties of the alert functions (specification SpecAlg)       *)

\* C19: whatever readings the window holds, one call of
\* detect_temperature_spikes emits at most one alert per location.
C19_UnaPorUbicacion ==
    Detectada => \A u \in Ubicaciones : Len(DeUbicacion(llamada.res.alertas, u)) <= 1

\* Location 1 dropped 9.0 in 5 minutes and then rose 7.5 in 5 minutes: both
\* changes classify, one alert (the rise) is emitted.
C19_Witness ==
    /\ Detectada
    /\ {llamada.rows[i] : i \in FilasDe(1)}
          = {Fila(1, Some(240), 11), Fila(1, Some(150), 16), Fila(1, Some(225), 21)}
    /\ Niveles(llamada.res.alertas) = <<"roja">>

\* The latest readings that reach the warning threshold, and the locations
\* whose latest change classifies as a spike.
ConUmbral ==
    {i \in DOMAIN llamada.lecturas :
        llamada.lecturas[i].temperatura[1] >= config.thresholds.warning}
ConSpike ==
    IF config.detectar_spikes
    THEN {u \in Ubicaciones : SpikeEsperado(u) # <<>>}
    ELSE {}

\* C20: generar_alertas removes no duplicates: when the latest reading of a
\* location gives a threshold alert and the location also gives a spike alert
\* (spike detection enabled), both are in the output, and the output has as
\* many alerts as there are threshold alerts plus spike alerts.
C20_SinDeduplicar ==
    Generada =>
        /\ Len(llamada.res.alertas) = Cardinality(ConUmbral) + Cardinality(ConSpike)
        /\ \A i \in ConUmbral :
              LET u == llamada.lecturas[i].ubicacion
                  as == DeUbicacion(llamada.res.alertas, u)
              IN  u \in ConSpike
                    => /\ Len(as) = 2
                       /\ \E j, k \in DOMAIN as : EsUmbral(as[j]) /\ EsSpike(as[k])

\* Location 1, at 24.0 after a rise of 4.0 in 10 minutes, is reported twice:
\* by its threshold alert and by its spike alert.
C20_Witness ==
    /\ Generada
    /\ \E i \in ConUmbral : llamada.lecturas[i].ubicacion \in ConSpike
    /\ Len(DeUbicacion(llamada.res.alertas, 1)) = 2

-----------------------------------------------------------------------------
(* The shape of alerts (specification SpecServicio)                        *)

\* An alert with one of the three levels and a message that is not empty.
BienFormada(a) ==
    /\ a.nivel \in {"roja", "amarilla", "azul"}
    /\ a.texto # <<>>
    /\ a.texto[1] # ""

\* Every alert the service holds or is returning: the result of the running
\* tick's aggregation, the stored batch, the response of /api/alerts (the
\* spike detector) and the batch in the status response.
AlertasPresentes ==
    Range(alertas) \cup Range(ultimas_alertas) \cup Range(ultimo_lote)
        \cup Range(llamada.res.alertas) \cup Range(estado.alertas_enviadas)

-----------------------------------------------------------------------------
(* The reference reading of the spike detector (specification SpecAlg)     *)

\* The example: 20.0 at minute 0, 24.0 at minute 5, 24.5 at minute 8, as the
\* query returns them (fecha_hora descending), is judged on +0.5 in 3 minutes.
C22_Ejemplo ==
    /\ detect_temperature_spikes(<<Fila(1, Some(245), 8), Fila(1, Some(240), 5),
                                   Fila(1, Some(200), 0)>>) = <<>>
    /\ detect_temperature_spikes(<<Fila(1, Some(245), 8), Fila(1, Some(200), 0)>>)
          = <<Alerta(1, "roja", <<"SUBIDA CRITICA", 1, 45, 8>>)>>

\* C22: per location the spike detector compares only the latest reading of
\* the window with the nearest earlier one: delta_temp and delta_min are
\* taken between those two and decide alone, so older readings in the window
\* never change the result.
C22_ReferenciaCercana ==
    /\ C22_Ejemplo
    /\ Detectada =>
          \A u \in Ubicaciones :
              (FilasDe(u) # {} /\ Comparable(u))
                  => LET as == DeUbicacion(llamada.res.alertas, u)
                     IN  /\ Niveles(as) = SpikeEsperado(u)
                         /\ \A i \in DOMAIN as : /\ as[i].texto[3] = DeltaTemp(u)
                                                 /\ as[i].texto[4] = DeltaMin(u)

\* Location 1 read 15.0, 22.5 and 24.0 at minutes 11, 16 and 21: the latest
\* is 9.0 above the oldest in 10 minutes but 1.5 above the nearest in 5, and
\* no alert is given.
C22_Witness ==
    /\ Detectada
    /\ {llamada.rows[i] : i \in FilasDe(1)}
          = {Fila(1, Some(150), 11), Fila(1, Some(225), 16), Fila(1, Some(240), 21)}
    /\ DeUbicacion(llamada.res.alertas, 1) = <<>>

-----------------------------------------------------------------------------
(* The dispatch state as a whole, and the sequence of ticks (Spec)         *)

\* last_alert_sent is unset exactly when ultimas_alertas is empty.
C23_Juntos == (last_alert_sent = None) <=> (ultimas_alertas = <<>>)

\* A step that writes either field writes both: the time of the tick and a
\* batch that is not empty.
C23_PasoEscritura ==
    (last_alert_sent' # last_alert_sent \/ ultimas_alertas' # ultimas_alertas)
        => /\ last_alert_sent' = Some(now)
           /\ ultimas_alertas' # <<>>
           /\ ultimas_alertas' = ultimo_lote'
           /\ envios' = Append(envios, now)

\* C23: in every reachable state last_alert_sent is unset if and only if
\* ultimas_alertas is empty: the two fields are only ever written together,
\* and only with a non-empty batch.
C23_EstadoParejo == []C23_Juntos /\ [][C23_PasoEscritura]_vars

\* The first dispatching tick raised after the state was written, and a
\* later tick found nothing to send.
C23_Witness ==
    /\ Len(envios) = 1
    /\ correos # <<>> /\ correos[Len(correos)].res = "excepcion"
    /\ ultimo_tick.fin = "sin_alertas"
    /\ last_alert_sent # None

\* A tick begins only out of the sleep of the loop, once the tick period is
\* over and the tick before has returned or raised with nothing left to send.
C24_PasoComienzo ==
    (pc' = "tick" /\ pc # "tick")
        => /\ pc = "sleep"
           /\ now >= despertar
           /\ ultimo_tick.fin \notin {"ninguno", "despachando"}
           /\ pendientes = <<>> /\ alertas = <<>>

\* The sleep entered after a tick lasts one tick period from that moment.
C24_PasoDormir == (pc' = "sleep" /\ pc # "sleep") => despertar' = now + 1

\* The throttle check is passed and the state written by the one tick in
\* progress, at least one interval after every dispatch before.
C24_PasoControl ==
    (envios' # envios)
        => /\ pc = "tick" /\ pc' = "credenciales"
           /\ ~Limitado
           /\ \A i \in DOMAIN envios : now - envios[i] >= Intervalo
           /\ last_alert_sent' = Some(now)

\* A dispatch in progress is the one of the tick in progress.
C24_EnCurso ==
    /\ ultimo_tick.fin = "despachando" <=> pc \in {"credenciales", "enviando"}
    /\ pc \in {"credenciales", "enviando"}
          => envios # <<>> /\ UltimoEnvio = ahora /\ last_alert_sent = Some(ahora)
    /\ pc \in {"sleep", "tick", "except"} => pendientes = <<>> /\ alertas = <<>>

\* C24: scheduler ticks never overlap: the loop begins a new tick only after
\* the previous tick has returned or raised and the tick period has been
\* slept, so at most one tick is between its throttle check and its state
\* update, and no two ticks pass the throttle check for the same interval.
C24_SinSolape ==
    [][C24_PasoComienzo /\ C24_PasoDormir /\ C24_PasoControl]_vars /\ []C24_EnCurso

\* A dispatching tick took more than a tick period to send; the next tick
\* began one period after it had returned.
C24_Witness ==
    /\ pc = "tick"
    /\ ultimo_tick.fin = "enviado"
    /\ now = despertar
    /\ despertar > UltimoEnvio + 2

====
